---- MODULE Spec2Model ----
(***************************************************************************)
(* git-narrator: the diff splitter (src/git.rs) and the commit message     *)
(* categorizer (src/emotes.rs).                                            *)
(*                                                                         *)
(* Text.  A Rust String is modelled as a run-length encoded sequence of    *)
(* characters: a sequence of runs [c |-> char, n |-> count], n >= 1, with  *)
(* no two adjacent runs of the same character, so that equal strings have  *)
(* equal encodings.  A character is a one-letter TLA+ string; a character  *)
(* outside ASCII is written by its code point ("U+00E9").  Lengths are in  *)
(* bytes of the UTF-8 encoding, as str::len() counts them.                 *)
(***************************************************************************)
EXTENDS Integers, Sequences, FiniteSets, TLC

VARIABLES diff, pc, attempt, tried, result, needs, window, message, category

vars == <<diff, pc, attempt, tried, result, needs, window, message, category>>

(***************************************************************************)
(* Program constants.                                                      *)
(***************************************************************************)
DIFF_SIZE_THRESHOLD == 8000

MAX_SPLIT_ATTEMPTS == 4

(***************************************************************************)
(* Bound of the model: the number of pieces an input diff is made of.      *)
(***************************************************************************)
MaxPieces == 3

(***************************************************************************)
(* Bounds of the texts and window sizes split_by_character_chunks is       *)
(* called with on its own.                                                 *)
(***************************************************************************)
MaxChars == 4

MaxWindow == 3

(***************************************************************************)
(* Bound of the commit messages: the number of parts a message is made of. *)
(***************************************************************************)
MaxParts == 2

(***************************************************************************)
(* Bound of the diffs split_by_hunks is called with on its own: the number *)
(* of their pieces.                                                        *)
(***************************************************************************)
MaxHunkPieces == 4

(***************************************************************************)
(* Strings.                                                                *)
(***************************************************************************)
\* char::len_utf8: the number of bytes of a character in a String.
Utf8Len(c) ==
    IF c = "U+00E9" THEN 2 ELSE 1

\* char::is_whitespace, for the characters of the model.
IsWhitespace(c) ==
    c \in {" ", "\n", "\r", "\t"}

Run(c, n) ==
    [c |-> c, n |-> n]

\* A string of n copies of c.
Rep(c, n) ==
    IF n = 0 THEN <<>> ELSE <<Run(c, n)>>

\* String::push_str / format!("{}{}", a, b): concatenation.
Cat(a, b) ==
    IF a = <<>> THEN b
    ELSE IF b = <<>> THEN a
    ELSE IF a[Len(a)].c = b[1].c
         THEN SubSeq(a, 1, Len(a) - 1)
              \o <<Run(b[1].c, a[Len(a)].n + b[1].n)>>
              \o SubSeq(b, 2, Len(b))
         ELSE a \o b

RECURSIVE StrOf(_)
\* The string whose characters are the elements of cs, in order.
StrOf(cs) ==
    IF cs = <<>> THEN <<>>
    ELSE Cat(StrOf(SubSeq(cs, 1, Len(cs) - 1)), Rep(cs[Len(cs)], 1))

RECURSIVE CatAll(_)
\* The concatenation of a sequence of strings.
CatAll(ss) ==
    IF ss = <<>> THEN <<>>
    ELSE Cat(CatAll(SubSeq(ss, 1, Len(ss) - 1)), ss[Len(ss)])

RECURSIVE SumBytes(_, _, _)
\* The bytes of the runs lo..hi of s.
SumBytes(s, lo, hi) ==
    IF lo > hi THEN 0
    ELSE IF lo = hi THEN s[lo].n * Utf8Len(s[lo].c)
    ELSE LET mid == (lo + hi) \div 2
         IN  SumBytes(s, lo, mid) + SumBytes(s, mid + 1, hi)

\* str::len(): the length in bytes.
StrLen(s) ==
    SumBytes(s, 1, Len(s))

RECURSIVE SumChars(_, _, _)
\* The characters of the runs lo..hi of s.
SumChars(s, lo, hi) ==
    IF lo > hi THEN 0
    ELSE IF lo = hi THEN s[lo].n
    ELSE LET mid == (lo + hi) \div 2
         IN  SumChars(s, lo, mid) + SumChars(s, mid + 1, hi)

\* str::chars().count(): the length in characters.
CharCount(s) ==
    SumChars(s, 1, Len(s))

RECURSIVE EndsFrom(_, _, _, _)
\* The byte offsets at which the runs lo..hi of s end, the run lo starting
\* at the offset base.
EndsFrom(s, lo, hi, base) ==
    IF lo > hi THEN <<>>
    ELSE IF lo = hi THEN <<base + s[lo].n * Utf8Len(s[lo].c)>>
    ELSE LET mid == (lo + hi) \div 2
         IN  EndsFrom(s, lo, mid, base)
             \o EndsFrom(s, mid + 1, hi, base + SumBytes(s, lo, mid))

\* The byte offset at which each run of s ends.
RunEnds(s) ==
    EndsFrom(s, 1, Len(s), 0)

\* The number of runs that end at or before the byte offset k, ends being
\* the offsets at which the runs end.
RunsWithin(ends, k) ==
    Cardinality({j \in 1..Len(ends) : ends[j] <= k})

\* The byte offset at which the run after the first i runs starts.
RunStart(ends, i) ==
    IF i = 0 THEN 0 ELSE ends[i]

\* The characters of the run after the first i runs of s that lie before
\* the byte offset k; k is a char boundary exactly when no byte is left.
CharsBefore(s, ends, i, k) ==
    IF i = Len(s) THEN [chars |-> 0, left |-> k - RunStart(ends, i)]
    ELSE [chars |-> (k - RunStart(ends, i)) \div Utf8Len(s[i + 1].c),
          left |-> (k - RunStart(ends, i)) % Utf8Len(s[i + 1].c)]

\* str::is_char_boundary(k), ends being RunEnds(s).
IsCharBoundary(s, ends, k) ==
    CharsBefore(s, ends, RunsWithin(ends, k), k).left = 0

\* &s[start..end] panics unless start <= end <= len and both are char
\* boundaries.
SliceOk(s, ends, start, end) ==
    start <= end /\ end <= RunStart(ends, Len(s))
    /\ IsCharBoundary(s, ends, start) /\ IsCharBoundary(s, ends, end)

\* &s[start..end] where SliceOk.
Slice(s, ends, start, end) ==
    LET a == RunsWithin(ends, start)
        b == RunsWithin(ends, end)
        skip == CharsBefore(s, ends, a, start).chars
        last == CharsBefore(s, ends, b, end).chars
    IN  IF a = b
        THEN Rep((IF a < Len(s) THEN s[a + 1].c ELSE ""), last - skip)
        ELSE Rep(s[a + 1].c, s[a + 1].n - skip)
             \o SubSeq(s, a + 2, b)
             \o (IF b < Len(s) THEN Rep(s[b + 1].c, last) ELSE <<>>)

\* str::starts_with(p).
StartsWith(s, p) ==
    IF p = <<>> THEN TRUE
    ELSE /\ Len(s) >= Len(p)
         /\ SubSeq(s, 1, Len(p) - 1) = SubSeq(p, 1, Len(p) - 1)
         /\ s[Len(p)].c = p[Len(p)].c
         /\ s[Len(p)].n >= p[Len(p)].n

RECURSIVE TrimStart(_)
TrimStart(s) ==
    IF s = <<>> THEN <<>>
    ELSE IF IsWhitespace(s[1].c) THEN TrimStart(Tail(s))
    ELSE s

RECURSIVE TrimEnd(_)
TrimEnd(s) ==
    IF s = <<>> THEN <<>>
    ELSE IF IsWhitespace(s[Len(s)].c) THEN TrimEnd(SubSeq(s, 1, Len(s) - 1))
    ELSE s

\* str::trim(): without the whitespace at its two ends.
Trim(s) ==
    TrimEnd(TrimStart(s))

\* One line of str::lines(): the terminator is "\n" or "\r\n".
StripCr(line) ==
    IF line /= <<>> /\ line[Len(line)].c = "\r"
    THEN IF line[Len(line)].n = 1
         THEN SubSeq(line, 1, Len(line) - 1)
         ELSE SubSeq(line, 1, Len(line) - 1)
              \o <<Run("\r", line[Len(line)].n - 1)>>
    ELSE line

RECURSIVE Flatten(_, _, _)
\* The concatenation of the sequences ss[lo], .., ss[hi].
Flatten(ss, lo, hi) ==
    IF lo > hi THEN <<>>
    ELSE IF lo = hi THEN ss[lo]
    ELSE LET mid == (lo + hi) \div 2
         IN  Flatten(ss, lo, mid) \o Flatten(ss, mid + 1, hi)

\* str::lines(): the text between the newlines; a last line without a
\* newline is a line, and keeps a "\r" at its end.
Lines(s) ==
    LET nl == SelectSeq([i \in 1..Len(s) |-> i], LAMBDA i : s[i].c = "\n")
        m == Len(nl)
        group == [k \in 1..m |->
                    <<StripCr(SubSeq(s, (IF k = 1 THEN 0 ELSE nl[k - 1]) + 1,
                                     nl[k] - 1))>>
                    \o [j \in 1..(s[nl[k]].n - 1) |-> <<>>]]
        rest == SubSeq(s, (IF m = 0 THEN 0 ELSE nl[m]) + 1, Len(s))
    IN  Flatten(group, 1, m) \o (IF rest = <<>> THEN <<>> ELSE <<rest>>)

(***************************************************************************)
(* The diff splitter, src/git.rs.                                          *)
(***************************************************************************)
\* The line prefixes the splitter looks for.
DIFF_GIT == StrOf(<<"d", "i", "f", "f", " ", "-", "-", "g", "i", "t">>)

INDEX_SP == StrOf(<<"i", "n", "d", "e", "x", " ">>)

MINUS_SP == StrOf(<<"-", "-", "-", " ">>)

PLUS_SP == StrOf(<<"+", "+", "+", " ">>)

AT_AT == StrOf(<<"@", "@">>)

\* struct DiffChunk.  A description is the tuple of the parts its format!
\* puts together; the file name of a "File: {}" description is not modelled.
DiffChunk(content, description) ==
    [content |-> content, description |-> description]

\* Ok(SplitDiffResult { chunks, total_size, split_method }).
OkResult(chunks, total_size, split_method) ==
    [tag |-> "Ok", chunks |-> chunks, total_size |-> total_size,
     split_method |-> split_method]

\* Err(eyre!(..)).
ErrResult(msg) ==
    [tag |-> "Err", msg |-> msg]

\* The thread panicked: no value is returned to the caller.
PanicResult ==
    [tag |-> "Panic"]

\* needs_splitting with >= for >.
needs_splitting_at_threshold(d) ==
    StrLen(d) >= DIFF_SIZE_THRESHOLD

needs_splitting(d) ==
    StrLen(d) > DIFF_SIZE_THRESHOLD

\* The body of the for loop of split_by_files with `if in_file` reading the
\* flag as it was before the line: the first "diff --git" line is lost.
FilesStepLateStart(st, line) ==
    LET hit == StartsWith(line, DIFF_GIT)
        st1 == IF hit
               THEN [chunks |-> IF st.in_file /\ st.content /= <<>>
                                THEN Append(st.chunks,
                                            DiffChunk(Trim(st.content), <<"File">>))
                                ELSE st.chunks,
                     content |-> <<>>,
                     in_file |-> TRUE]
               ELSE st
    IN  IF st.in_file
        THEN [st1 EXCEPT !.content = Cat(Cat(@, line), Rep("\n", 1))]
        ELSE st1

\* The body of the for loop of split_by_files, for one line.
FilesStep(st, line) ==
    LET hit == StartsWith(line, DIFF_GIT)
        st1 == IF hit
               THEN [chunks |-> IF st.in_file /\ st.content /= <<>>
                                THEN Append(st.chunks,
                                            DiffChunk(Trim(st.content), <<"File">>))
                                ELSE st.chunks,
                     content |-> <<>>,
                     in_file |-> TRUE]
               ELSE st
    IN  IF st1.in_file
        THEN [st1 EXCEPT !.content = Cat(Cat(@, line), Rep("\n", 1))]
        ELSE st1

RECURSIVE FilesLoop(_, _, _)
FilesLoop(lines, i, st) ==
    IF i > Len(lines) THEN st
    ELSE FilesLoop(lines, i + 1, FilesStep(st, lines[i]))

\* split_by_files returning the chunk of the last file only.
split_by_files_last_only(d) ==
    LET st == FilesLoop(Lines(d), 1,
                        [chunks |-> <<>>, content |-> <<>>, in_file |-> FALSE])
        chunks == IF st.in_file /\ st.content /= <<>>
                  THEN <<DiffChunk(Trim(st.content), <<"File">>)>>
                  ELSE <<>>
    IN  IF chunks = <<>> THEN ErrResult("No files found in diff")
        ELSE OkResult(chunks, StrLen(d), "by_files")

split_by_files(d) ==
    LET st == FilesLoop(Lines(d), 1,
                        [chunks |-> <<>>, content |-> <<>>, in_file |-> FALSE])
        chunks == IF st.in_file /\ st.content /= <<>>
                  THEN Append(st.chunks, DiffChunk(Trim(st.content), <<"File">>))
                  ELSE st.chunks
    IN  IF chunks = <<>> THEN ErrResult("No files found in diff")
        ELSE OkResult(chunks, StrLen(d), "by_files")

\* The body of the for loop of split_by_hunks, for one line.
HunksStep(st, line) ==
    IF StartsWith(line, DIFF_GIT) \/ StartsWith(line, INDEX_SP)
       \/ StartsWith(line, MINUS_SP) \/ StartsWith(line, PLUS_SP)
    THEN [st EXCEPT !.header = Cat(Cat(@, line), Rep("\n", 1))]
    ELSE IF StartsWith(line, AT_AT)
    THEN LET st1 == IF st.chunk /= <<>>
                    THEN [st EXCEPT
                            !.chunks = Append(@,
                                DiffChunk(Cat(st.header, Trim(st.chunk)),
                                          <<"Hunk", st.hunk_count>>)),
                            !.chunk = <<>>]
                    ELSE st
         IN  [st1 EXCEPT !.hunk_count = @ + 1,
                         !.chunk = Cat(Cat(@, line), Rep("\n", 1))]
    ELSE IF ~StartsWith(line, DIFF_GIT)
    THEN [st EXCEPT !.chunk = Cat(Cat(@, line), Rep("\n", 1))]
    ELSE st

RECURSIVE HunksLoop(_, _, _)
HunksLoop(lines, i, st) ==
    IF i > Len(lines) THEN st
    ELSE HunksLoop(lines, i + 1, HunksStep(st, lines[i]))

split_by_hunks(d) ==
    LET st == HunksLoop(Lines(d), 1,
                        [chunks |-> <<>>, chunk |-> <<>>, header |-> <<>>,
                         hunk_count |-> 0])
        chunks == IF st.chunk /= <<>>
                  THEN Append(st.chunks,
                              DiffChunk(Cat(st.header, Trim(st.chunk)),
                                        <<"Hunk", st.hunk_count>>))
                  ELSE st.chunks
    IN  IF chunks = <<>> THEN ErrResult("No hunks found in diff")
        ELSE OkResult(chunks, StrLen(d), "by_hunks")

Min(a, b) ==
    IF a < b THEN a ELSE b

RECURSIVE CharLoop(_, _, _, _, _, _)
\* The while loop of split_by_character_chunks.  &diff[start..end] panics
\* when start or end is not a char boundary.  ends is RunEnds(d).
CharLoop(d, ends, chunk_size, start, chunk_num, chunks) ==
    IF ~(start < RunStart(ends, Len(d)))
    THEN [panicked |-> FALSE, chunks |-> chunks]
    ELSE LET end == Min(start + chunk_size, RunStart(ends, Len(d)))
         IN  IF ~SliceOk(d, ends, start, end)
             THEN [panicked |-> TRUE, chunks |-> chunks]
             ELSE CharLoop(d, ends, chunk_size, end, chunk_num + 1,
                           Append(chunks,
                                  DiffChunk(Slice(d, ends, start, end),
                                            <<"Character chunk", chunk_num,
                                              start, end>>)))

split_by_character_chunks(d, chunk_size) ==
    LET loop == CharLoop(d, RunEnds(d), chunk_size, 0, 1, <<>>)
    IN  IF loop.panicked THEN PanicResult
        ELSE OkResult(loop.chunks, StrLen(d), "by_characters")

\* The match of split_large_diff with its first two arms exchanged.
StrategyHunksFirst(d, n) ==
    CASE n = 0 -> split_by_hunks(d)
      [] n = 1 -> split_by_files(d)
      [] n = 2 -> split_by_character_chunks(d, DIFF_SIZE_THRESHOLD \div 2)
      [] n = 3 -> split_by_character_chunks(d, DIFF_SIZE_THRESHOLD \div 4)

\* The match of split_large_diff: the strategy of an attempt.
Strategy(d, n) ==
    CASE n = 0 -> split_by_files(d)
      [] n = 1 -> split_by_hunks(d)
      [] n = 2 -> split_by_character_chunks(d, DIFF_SIZE_THRESHOLD \div 2)
      [] n = 3 -> split_by_character_chunks(d, DIFF_SIZE_THRESHOLD \div 4)

\* split_large_diff without its check of the chunk sizes.
all_chunks_unchecked(r) ==
    TRUE

\* all_chunks_valid of split_large_diff.
all_chunks_valid(r) ==
    \A i \in 1..Len(r.chunks) : StrLen(r.chunks[i].content) <= DIFF_SIZE_THRESHOLD

(***************************************************************************)
(* The inputs: a diff is made of at most MaxPieces pieces.                 *)
(***************************************************************************)
\* "diff --git f", "index 1", "--- f", "+++ f": the header lines of a file.
FileHeader ==
    CatAll(<<DIFF_GIT, StrOf(<<" ", "f", "\n">>),
             INDEX_SP, StrOf(<<"1", "\n">>),
             MINUS_SP, StrOf(<<"f", "\n">>),
             PLUS_SP, StrOf(<<"f", "\n">>)>>)

\* "@@ 1": the first line of a hunk.
HunkLine ==
    Cat(AT_AT, StrOf(<<" ", "1", "\n">>))

\* An added line of 5000 bytes, its newline included.
LongLine ==
    CatAll(<<Rep("+", 1), Rep("x", 4998), Rep("\n", 1)>>)

\* Text of exactly DIFF_SIZE_THRESHOLD bytes, with no newline.
ThresholdText ==
    Rep("y", DIFF_SIZE_THRESHOLD)

\* A short added line.
ShortLine ==
    StrOf(<<"+", "x", "\n">>)

\* A context line that is empty in the file: one space.
BlankLine ==
    StrOf(<<" ", "\n">>)

\* 2500 two-byte characters: 5000 bytes.
AccentText ==
    Rep("U+00E9", 2500)

\* A whole file section of 5037 bytes: header, hunk line, one long line.
FileSection ==
    CatAll(<<FileHeader, HunkLine, LongLine>>)

Pieces ==
    {FileSection, FileHeader, HunkLine, LongLine, ThresholdText, ShortLine,
     BlankLine, AccentText}

Diffs ==
    {CatAll(ps) : ps \in UNION {[1..n -> Pieces] : n \in 0..MaxPieces}}

(***************************************************************************)
(* The operations.                                                         *)
(*   pc       where split_large_diff is: "start", "loop" or "done"         *)
(*   attempt  the loop variable of split_large_diff                        *)
(*   tried    the attempts made so far, in order                           *)
(*   result   what split_large_diff returned, <<>> before it returns       *)
(*   needs    what needs_splitting(diff) returned, <<>> before it is called*)
(*   window   the chunk_size of a direct call of split_by_character_chunks *)
(* message and category belong to the categorizer and stay empty here.     *)
(***************************************************************************)
Init ==
    /\ diff \in Diffs
    /\ pc = "start"
    /\ attempt = 0
    /\ tried = <<>>
    /\ result = <<>>
    /\ needs = <<>>
    /\ window = 0
    /\ message = <<>>
    /\ category = <<>>

\* pub fn needs_splitting, which a caller asks before it splits.
NeedsSplitting ==
    /\ pc = "start"
    /\ needs = <<>>
    /\ needs' = <<needs_splitting(diff)>>
    /\ UNCHANGED <<diff, pc, attempt, tried, result, window, message, category>>

\* split_large_diff up to the loop: the early return for a small diff.
SplitEnter ==
    /\ pc = "start"
    /\ IF ~needs_splitting(diff)
       THEN /\ result' = <<OkResult(<<DiffChunk(diff,
                                       <<"Complete diff (no splitting needed)">>)>>,
                                    StrLen(diff), "none")>>
            /\ pc' = "done"
       ELSE /\ result' = result
            /\ pc' = "loop"
    /\ UNCHANGED <<diff, attempt, tried, needs, window, message, category>>

\* One iteration of the for loop of split_large_diff, or the Err after it.
SplitAttempt ==
    /\ pc = "loop"
    /\ IF attempt < MAX_SPLIT_ATTEMPTS
       THEN LET r == Strategy(diff, attempt)
            IN  /\ tried' = Append(tried, attempt)
                /\ IF r.tag = "Panic"
                   THEN /\ result' = <<r>>
                        /\ pc' = "done"
                        /\ attempt' = attempt
                   ELSE IF r.tag = "Ok" /\ all_chunks_valid(r)
                   THEN /\ result' = <<r>>
                        /\ pc' = "done"
                        /\ attempt' = attempt
                   ELSE /\ result' = result
                        /\ pc' = pc
                        /\ attempt' = attempt + 1
       ELSE /\ result' = <<ErrResult("Unable to split diff into manageable chunks after 4 attempts")>>
            /\ pc' = "done"
            /\ UNCHANGED <<attempt, tried>>
    /\ UNCHANGED <<diff, needs, window, message, category>>

Next ==
    \/ NeedsSplitting
    \/ SplitEnter
    \/ SplitAttempt

Spec ==
    Init /\ [][Next]_vars

(***************************************************************************)
(* split_by_character_chunks called on its own, as its unit test calls it: *)
(* any text of at most MaxChars characters, any window of 1..MaxWindow.    *)
(***************************************************************************)
WindowChars ==
    {"a", "\n", "U+00E9"}

WindowTexts ==
    {StrOf(cs) : cs \in UNION {[1..n -> WindowChars] : n \in 0..MaxChars}}

InitWindow ==
    /\ diff \in WindowTexts
    /\ window \in 1..MaxWindow
    /\ pc = "start"
    /\ attempt = 0
    /\ tried = <<>>
    /\ result = <<>>
    /\ needs = <<>>
    /\ message = <<>>
    /\ category = <<>>

CharacterChunks ==
    /\ pc = "start"
    /\ result' = <<split_by_character_chunks(diff, window)>>
    /\ pc' = "done"
    /\ UNCHANGED <<diff, attempt, tried, needs, window, message, category>>

NextWindow ==
    CharacterChunks

SpecWindow ==
    InitWindow /\ [][NextWindow]_vars

(***************************************************************************)
(* split_by_hunks called on its own, on a diff of at most MaxHunkPieces     *)
(* pieces: the headers of two files, hunk lines, added lines and blank     *)
(* context lines.                                                          *)
(***************************************************************************)
\* The four header lines of a second file, g.
FileHeaderG ==
    CatAll(<<DIFF_GIT, StrOf(<<" ", "g", "\n">>),
             INDEX_SP, StrOf(<<"2", "\n">>),
             MINUS_SP, StrOf(<<"g", "\n">>),
             PLUS_SP, StrOf(<<"g", "\n">>)>>)

HunkPieces ==
    {FileHeader, FileHeaderG, HunkLine, ShortLine, BlankLine}

HunkDiffs ==
    {CatAll(ps) : ps \in UNION {[1..n -> HunkPieces] : n \in 0..MaxHunkPieces}}

InitHunks ==
    /\ diff \in HunkDiffs
    /\ pc = "start"
    /\ attempt = 0
    /\ tried = <<>>
    /\ result = <<>>
    /\ needs = <<>>
    /\ window = 0
    /\ message = <<>>
    /\ category = <<>>

ByHunks ==
    /\ pc = "start"
    /\ result' = <<split_by_hunks(diff)>>
    /\ pc' = "hunks"
    /\ UNCHANGED <<diff, attempt, tried, needs, window, message, category>>

\* split_by_files called on its own on the same diffs.
ByFiles ==
    /\ pc = "start"
    /\ result' = <<split_by_files(diff)>>
    /\ pc' = "files"
    /\ UNCHANGED <<diff, attempt, tried, needs, window, message, category>>

NextHunks ==
    \/ ByHunks
    \/ ByFiles

SpecHunks ==
    InitHunks /\ [][NextHunks]_vars

(***************************************************************************)
(* The commit message categorizer, src/emotes.rs.                          *)
(*                                                                         *)
(* A commit message is a sequence of characters, each a one-letter string  *)
(* (a character outside ASCII by its code point, as above); an Option is   *)
(* the empty sequence (None) or a sequence of one element (Some).          *)
(***************************************************************************)
\* enum CommitCategory.
CommitCategory ==
    {"Fix", "Feat", "Chore", "Docs", "Style", "Refactor", "Test",
     "Perf", "Build", "Ci", "Deploy", "Security", "Deps", "Revert",
     "Config", "Init", "Wip", "Hotfix", "Release", "Merge", "Unknown"}

UpperCase ==
    <<"A", "B", "C", "D", "E", "F", "G", "H", "I", "J", "K", "L", "M">>
    \o <<"N", "O", "P", "Q", "R", "S", "T", "U", "V", "W", "X", "Y", "Z">>

LowerCase ==
    <<"a", "b", "c", "d", "e", "f", "g", "h", "i", "j", "k", "l", "m">>
    \o <<"n", "o", "p", "q", "r", "s", "t", "u", "v", "w", "x", "y", "z">>

\* char::to_lowercase(): the lower case of one character, which may be more
\* than one character (U+0130 gives "i" and the combining dot U+0307).
LowerChar(c) ==
    IF \E i \in 1..Len(UpperCase) : UpperCase[i] = c
    THEN <<LowerCase[CHOOSE i \in 1..Len(UpperCase) : UpperCase[i] = c]>>
    ELSE IF c = "U+0130" THEN <<"i", "U+0307">>
    ELSE <<c>>

\* str::to_lowercase().
to_lowercase(s) ==
    Flatten([i \in 1..Len(s) |-> LowerChar(s[i])], 1, Len(s))

\* message.lines().next().unwrap_or(""): the text before the first line
\* terminator, "\n" or "\r\n"; the whole text if there is none.
first_line_of(s) ==
    LET nl == {i \in 1..Len(s) : s[i] = "\n"}
    IN  IF nl = {} THEN s
        ELSE LET end == (CHOOSE i \in nl : \A j \in nl : i <= j) - 1
             IN  IF end >= 1 /\ s[end] = "\r"
                 THEN SubSeq(s, 1, end - 1)
                 ELSE SubSeq(s, 1, end)

\* str::starts_with(pattern).
starts_with(s, p) ==
    Len(p) <= Len(s) /\ SubSeq(s, 1, Len(p)) = p

\* str::contains(pattern): p is a substring of s.
contains(s, p) ==
    \/ p = <<>>
    \/ \E i \in 1..(Len(s) - Len(p) + 1) :
          s[i] = p[1] /\ SubSeq(s, i, i + Len(p) - 1) = p

\* The ordered table of parse_conventional_commit.
conventional_patterns ==
    <<
      [pattern |-> <<"f", "e", "a", "t">>, category |-> "Feat"],
      [pattern |-> <<"f", "e", "a", "t", "u", "r", "e">>, category |-> "Feat"],
      [pattern |-> <<"f", "i", "x">>, category |-> "Fix"],
      [pattern |-> <<"b", "u", "g", "f", "i", "x">>, category |-> "Fix"],
      [pattern |-> <<"b", "u", "g">>, category |-> "Fix"],
      [pattern |-> <<"d", "o", "c", "s">>, category |-> "Docs"],
      [pattern |-> <<"d", "o", "c">>, category |-> "Docs"],
      [pattern |-> <<"d", "o", "c", "u", "m", "e", "n", "t", "a", "t", "i", "o", "n">>, category |-> "Docs"],
      [pattern |-> <<"s", "t", "y", "l", "e">>, category |-> "Style"],
      [pattern |-> <<"r", "e", "f", "a", "c", "t", "o", "r">>, category |-> "Refactor"],
      [pattern |-> <<"r", "e", "f", "a", "c", "t">>, category |-> "Refactor"],
      [pattern |-> <<"t", "e", "s", "t">>, category |-> "Test"],
      [pattern |-> <<"t", "e", "s", "t", "s">>, category |-> "Test"],
      [pattern |-> <<"t", "e", "s", "t", "i", "n", "g">>, category |-> "Test"],
      [pattern |-> <<"p", "e", "r", "f">>, category |-> "Perf"],
      [pattern |-> <<"p", "e", "r", "f", "o", "r", "m", "a", "n", "c", "e">>, category |-> "Perf"],
      [pattern |-> <<"b", "u", "i", "l", "d">>, category |-> "Build"],
      [pattern |-> <<"c", "i">>, category |-> "Ci"],
      [pattern |-> <<"c", "h", "o", "r", "e">>, category |-> "Chore"],
      [pattern |-> <<"r", "e", "v", "e", "r", "t">>, category |-> "Revert"],
      [pattern |-> <<"d", "e", "p", "l", "o", "y">>, category |-> "Deploy"],
      [pattern |-> <<"d", "e", "p", "l", "o", "y", "m", "e", "n", "t">>, category |-> "Deploy"],
      [pattern |-> <<"s", "e", "c", "u", "r", "i", "t", "y">>, category |-> "Security"],
      [pattern |-> <<"s", "e", "c">>, category |-> "Security"],
      [pattern |-> <<"d", "e", "p", "s">>, category |-> "Deps"],
      [pattern |-> <<"d", "e", "p", "e", "n", "d", "e", "n", "c", "i", "e", "s">>, category |-> "Deps"],
      [pattern |-> <<"d", "e", "p", "e", "n", "d", "e", "n", "c", "y">>, category |-> "Deps"],
      [pattern |-> <<"c", "o", "n", "f", "i", "g">>, category |-> "Config"],
      [pattern |-> <<"c", "o", "n", "f", "i", "g", "u", "r", "a", "t", "i", "o", "n">>, category |-> "Config"],
      [pattern |-> <<"i", "n", "i", "t">>, category |-> "Init"],
      [pattern |-> <<"i", "n", "i", "t", "i", "a", "l">>, category |-> "Init"],
      [pattern |-> <<"w", "i", "p">>, category |-> "Wip"],
      [pattern |-> <<"h", "o", "t", "f", "i", "x">>, category |-> "Hotfix"],
      [pattern |-> <<"r", "e", "l", "e", "a", "s", "e">>, category |-> "Release"],
      [pattern |-> <<"v", "e", "r", "s", "i", "o", "n">>, category |-> "Release"],
      [pattern |-> <<"m", "e", "r", "g", "e">>, category |-> "Merge"]
    >>

\* parse_conventional_commit returning the last entry that matches.
parse_conventional_last(first_line) ==
    LET matched(i) ==
            \/ starts_with(first_line, conventional_patterns[i].pattern \o <<":">>)
            \/ /\ contains(first_line, conventional_patterns[i].pattern \o <<"(">>)
               /\ contains(first_line, <<")", ":">>)
        hits == {i \in 1..Len(conventional_patterns) : matched(i)}
    IN  IF hits = {} THEN <<>>
        ELSE <<conventional_patterns[CHOOSE i \in hits : \A j \in hits : j <= i].category>>

\* fn parse_conventional_commit: the category of the first entry of the table
\* whose pattern k gives "k:" at the start of the line, or "k(" and "):"
\* anywhere in it.
parse_conventional_commit(first_line) ==
    LET matched(i) ==
            \/ starts_with(first_line, conventional_patterns[i].pattern \o <<":">>)
            \/ /\ contains(first_line, conventional_patterns[i].pattern \o <<"(">>)
               /\ contains(first_line, <<")", ":">>)
        hits == {i \in 1..Len(conventional_patterns) : matched(i)}
    IN  IF hits = {} THEN <<>>
        ELSE <<conventional_patterns[CHOOSE i \in hits : \A j \in hits : i <= j].category>>

\* fn create_keyword_patterns: the HashMap from a category to its keywords.
create_keyword_patterns ==
       "Fix" :> <<
          <<"f", "i", "x">>,
          <<"b", "u", "g">>,
          <<"e", "r", "r", "o", "r">>,
          <<"i", "s", "s", "u", "e">>,
          <<"p", "r", "o", "b", "l", "e", "m">>,
          <<"r", "e", "s", "o", "l", "v", "e">>,
          <<"c", "o", "r", "r", "e", "c", "t">>,
          <<"p", "a", "t", "c", "h">>,
          <<"r", "e", "p", "a", "i", "r">>,
          <<"d", "e", "b", "u", "g">>,
          <<"c", "r", "a", "s", "h">>,
          <<"e", "x", "c", "e", "p", "t", "i", "o", "n">>,
          <<"b", "r", "o", "k", "e", "n">>,
          <<"r", "e", "g", "r", "e", "s", "s", "i", "o", "n">>,
          <<"h", "o", "t", "f", "i", "x">>,
          <<"c", "r", "i", "t", "i", "c", "a", "l">>,
          <<"u", "r", "g", "e", "n", "t">>
          >>
    @@ "Feat" :> <<
          <<"a", "d", "d">>,
          <<"n", "e", "w">>,
          <<"f", "e", "a", "t", "u", "r", "e">>,
          <<"i", "m", "p", "l", "e", "m", "e", "n", "t">>,
          <<"c", "r", "e", "a", "t", "e">>,
          <<"i", "n", "t", "r", "o", "d", "u", "c", "e">>,
          <<"s", "u", "p", "p", "o", "r", "t">>,
          <<"e", "n", "a", "b", "l", "e">>,
          <<"a", "l", "l", "o", "w">>,
          <<"e", "n", "h", "a", "n", "c", "e">>,
          <<"e", "x", "t", "e", "n", "d">>,
          <<"e", "x", "p", "a", "n", "d">>
          >>
    @@ "Docs" :> <<
          <<"u", "p", "d", "a", "t", "e", " ", "r", "e", "a", "d", "m", "e">>,
          <<"r", "e", "a", "d", "m", "e">>,
          <<"d", "o", "c", "u", "m", "e", "n", "t", "a", "t", "i", "o", "n">>,
          <<"d", "o", "c", "s">>,
          <<"c", "o", "m", "m", "e", "n", "t">>,
          <<"c", "o", "m", "m", "e", "n", "t", "s">>,
          <<"g", "u", "i", "d", "e">>,
          <<"t", "u", "t", "o", "r", "i", "a", "l">>,
          <<"e", "x", "a", "m", "p", "l", "e">>,
          <<"e", "x", "a", "m", "p", "l", "e", "s">>,
          <<"c", "h", "a", "n", "g", "e", "l", "o", "g">>,
          <<"l", "i", "c", "e", "n", "s", "e">>,
          <<"c", "o", "n", "t", "r", "i", "b", "u", "t", "i", "n", "g">>,
          <<"a", "p", "i", " ", "d", "o", "c">>,
          <<"d", "o", "c", "s", "t", "r", "i", "n", "g">>
          >>
    @@ "Style" :> <<
          <<"f", "o", "r", "m", "a", "t">>,
          <<"f", "o", "r", "m", "a", "t", "t", "i", "n", "g">>,
          <<"s", "t", "y", "l", "e">>,
          <<"s", "t", "y", "l", "i", "n", "g">>,
          <<"i", "n", "d", "e", "n", "t">>,
          <<"w", "h", "i", "t", "e", "s", "p", "a", "c", "e">>,
          <<"l", "i", "n", "t">>,
          <<"l", "i", "n", "t", "i", "n", "g">>,
          <<"p", "r", "e", "t", "t", "i", "e", "r">>,
          <<"e", "s", "l", "i", "n", "t">>,
          <<"c", "o", "d", "e", " ", "s", "t", "y", "l", "e">>,
          <<"c", "l", "e", "a", "n", "u", "p">>,
          <<"c", "o", "s", "m", "e", "t", "i", "c">>,
          <<"a", "p", "p", "e", "a", "r", "a", "n", "c", "e">>
          >>
    @@ "Refactor" :> <<
          <<"r", "e", "f", "a", "c", "t", "o", "r">>,
          <<"r", "e", "s", "t", "r", "u", "c", "t", "u", "r", "e">>,
          <<"r", "e", "o", "r", "g", "a", "n", "i", "z", "e">>,
          <<"s", "i", "m", "p", "l", "i", "f", "y">>,
          <<"c", "l", "e", "a", "n", " ", "u", "p">>,
          <<"e", "x", "t", "r", "a", "c", "t">>,
          <<"r", "e", "n", "a", "m", "e">>,
          <<"m", "o", "v", "e">>,
          <<"s", "p", "l", "i", "t">>,
          <<"c", "o", "m", "b", "i", "n", "e">>,
          <<"o", "p", "t", "i", "m", "i", "z", "e", " ", "s", "t", "r", "u", "c", "t", "u", "r", "e">>
          >>
    @@ "Test" :> <<
          <<"t", "e", "s", "t">>,
          <<"t", "e", "s", "t", "s">>,
          <<"t", "e", "s", "t", "i", "n", "g">>,
          <<"s", "p", "e", "c">>,
          <<"s", "p", "e", "c", "s">>,
          <<"u", "n", "i", "t", " ", "t", "e", "s", "t">>,
          <<"i", "n", "t", "e", "g", "r", "a", "t", "i", "o", "n", " ", "t", "e", "s", "t">>,
          <<"e", "2", "e">>,
          <<"c", "o", "v", "e", "r", "a", "g", "e">>,
          <<"m", "o", "c", "k">>,
          <<"f", "i", "x", "t", "u", "r", "e">>
          >>
    @@ "Perf" :> <<
          <<"p", "e", "r", "f", "o", "r", "m", "a", "n", "c", "e">>,
          <<"o", "p", "t", "i", "m", "i", "z", "e">>,
          <<"s", "p", "e", "e", "d">>,
          <<"f", "a", "s", "t", "e", "r">>,
          <<"e", "f", "f", "i", "c", "i", "e", "n", "c", "y">>,
          <<"c", "a", "c", "h", "e">>,
          <<"c", "a", "c", "h", "i", "n", "g">>,
          <<"m", "e", "m", "o", "r", "y">>,
          <<"c", "p", "u">>,
          <<"b", "e", "n", "c", "h", "m", "a", "r", "k">>,
          <<"p", "r", "o", "f", "i", "l", "i", "n", "g">>
          >>
    @@ "Build" :> <<
          <<"b", "u", "i", "l", "d">>,
          <<"c", "o", "m", "p", "i", "l", "e">>,
          <<"w", "e", "b", "p", "a", "c", "k">>,
          <<"r", "o", "l", "l", "u", "p">>,
          <<"b", "a", "b", "e", "l">>,
          <<"t", "y", "p", "e", "s", "c", "r", "i", "p", "t">>,
          <<"m", "a", "k", "e", "f", "i", "l", "e">>,
          <<"c", "m", "a", "k", "e">>,
          <<"g", "r", "a", "d", "l", "e">>,
          <<"m", "a", "v", "e", "n">>,
          <<"n", "p", "m", " ", "s", "c", "r", "i", "p", "t">>,
          <<"y", "a", "r", "n">>
          >>
    @@ "Ci" :> <<
          <<"c", "i">>,
          <<"c", "o", "n", "t", "i", "n", "u", "o", "u", "s", " ", "i", "n", "t", "e", "g", "r", "a", "t", "i", "o", "n">>,
          <<"g", "i", "t", "h", "u", "b", " ", "a", "c", "t", "i", "o", "n", "s">>,
          <<"t", "r", "a", "v", "i", "s">>,
          <<"j", "e", "n", "k", "i", "n", "s">>,
          <<"p", "i", "p", "e", "l", "i", "n", "e">>,
          <<"w", "o", "r", "k", "f", "l", "o", "w">>,
          <<"a", "u", "t", "o", "m", "a", "t", "i", "o", "n">>,
          <<"d", "e", "p", "l", "o", "y", " ", "s", "c", "r", "i", "p", "t">>
          >>
    @@ "Chore" :> <<
          <<"c", "h", "o", "r", "e">>,
          <<"m", "a", "i", "n", "t", "e", "n", "a", "n", "c", "e">>,
          <<"u", "p", "g", "r", "a", "d", "e">>,
          <<"b", "u", "m", "p">>,
          <<"c", "l", "e", "a", "n", "u", "p">>,
          <<"h", "o", "u", "s", "e", "k", "e", "e", "p", "i", "n", "g">>,
          <<"m", "i", "s", "c">>,
          <<"m", "i", "s", "c", "e", "l", "l", "a", "n", "e", "o", "u", "s">>,
          <<"r", "o", "u", "t", "i", "n", "e">>
          >>
    @@ "Security" :> <<
          <<"s", "e", "c", "u", "r", "i", "t", "y", " ", "v", "u", "l", "n", "e", "r", "a", "b", "i", "l", "i", "t", "y">>,
          <<"s", "e", "c", "u", "r", "i", "t", "y", " ", "f", "i", "x">>,
          <<"s", "e", "c", "u", "r", "i", "t", "y">>,
          <<"v", "u", "l", "n", "e", "r", "a", "b", "i", "l", "i", "t", "y">>,
          <<"e", "x", "p", "l", "o", "i", "t">>,
          <<"x", "s", "s">>,
          <<"c", "s", "r", "f">>,
          <<"i", "n", "j", "e", "c", "t", "i", "o", "n">>,
          <<"a", "u", "t", "h", "o", "r", "i", "z", "a", "t", "i", "o", "n">>,
          <<"p", "e", "r", "m", "i", "s", "s", "i", "o", "n">>,
          <<"s", "a", "n", "i", "t", "i", "z", "e">>,
          <<"e", "s", "c", "a", "p", "e">>
          >>
    @@ "Deps" :> <<
          <<"p", "a", "c", "k", "a", "g", "e", " ", "d", "e", "p", "e", "n", "d", "e", "n", "c", "i", "e", "s">>,
          <<"u", "p", "d", "a", "t", "e", " ", "d", "e", "p", "e", "n", "d", "e", "n", "c", "i", "e", "s">>,
          <<"d", "e", "p", "e", "n", "d", "e", "n", "c", "y">>,
          <<"d", "e", "p", "e", "n", "d", "e", "n", "c", "i", "e", "s">>,
          <<"p", "a", "c", "k", "a", "g", "e">>,
          <<"p", "a", "c", "k", "a", "g", "e", "s">>,
          <<"n", "p", "m">>,
          <<"y", "a", "r", "n">>,
          <<"p", "i", "p">>,
          <<"c", "a", "r", "g", "o">>,
          <<"g", "e", "m">>,
          <<"c", "o", "m", "p", "o", "s", "e", "r">>,
          <<"r", "e", "q", "u", "i", "r", "e", "m", "e", "n", "t", "s">>,
          <<"l", "o", "c", "k", " ", "f", "i", "l", "e">>,
          <<"b", "u", "m", "p", " ", "v", "e", "r", "s", "i", "o", "n">>,
          <<"u", "p", "g", "r", "a", "d", "e", " ", "p", "a", "c", "k", "a", "g", "e", "s">>
          >>
    @@ "Config" :> <<
          <<"c", "o", "n", "f", "i", "g">>,
          <<"c", "o", "n", "f", "i", "g", "u", "r", "a", "t", "i", "o", "n">>,
          <<"s", "e", "t", "t", "i", "n", "g", "s">>,
          <<"e", "n", "v", "i", "r", "o", "n", "m", "e", "n", "t">>,
          <<"e", "n", "v">>,
          <<"d", "o", "t", "e", "n", "v">>,
          <<"p", "r", "o", "p", "e", "r", "t", "i", "e", "s">>,
          <<"y", "a", "m", "l">>,
          <<"j", "s", "o", "n">>,
          <<"t", "o", "m", "l">>,
          <<"i", "n", "i">>
          >>
    @@ "Deploy" :> <<
          <<"d", "e", "p", "l", "o", "y">>,
          <<"d", "e", "p", "l", "o", "y", "m", "e", "n", "t">>,
          <<"r", "e", "l", "e", "a", "s", "e">>,
          <<"p", "u", "b", "l", "i", "s", "h">>,
          <<"p", "r", "o", "d", "u", "c", "t", "i", "o", "n">>,
          <<"s", "t", "a", "g", "i", "n", "g">>,
          <<"d", "o", "c", "k", "e", "r">>,
          <<"k", "u", "b", "e", "r", "n", "e", "t", "e", "s">>,
          <<"h", "e", "l", "m">>,
          <<"t", "e", "r", "r", "a", "f", "o", "r", "m">>
          >>
    @@ "Init" :> <<
          <<"i", "n", "i", "t", "i", "a", "l", " ", "c", "o", "m", "m", "i", "t">>,
          <<"f", "i", "r", "s", "t", " ", "c", "o", "m", "m", "i", "t">>,
          <<"i", "n", "i", "t", "i", "a", "l", "i", "z", "e">>,
          <<"s", "e", "t", "u", "p">>,
          <<"s", "c", "a", "f", "f", "o", "l", "d">>,
          <<"b", "o", "o", "t", "s", "t", "r", "a", "p">>,
          <<"p", "r", "o", "j", "e", "c", "t", " ", "s", "e", "t", "u", "p">>,
          <<"i", "n", "i", "t", "i", "a", "l">>
          >>
    @@ "Wip" :> <<
          <<"w", "i", "p">>,
          <<"w", "o", "r", "k", " ", "i", "n", " ", "p", "r", "o", "g", "r", "e", "s", "s">>,
          <<"t", "o", "d", "o">>,
          <<"f", "i", "x", "m", "e">>,
          <<"t", "e", "m", "p", "o", "r", "a", "r", "y">>,
          <<"d", "r", "a", "f", "t">>
          >>
    @@ "Merge" :> <<
          <<"m", "e", "r", "g", "e">>,
          <<"p", "u", "l", "l", " ", "r", "e", "q", "u", "e", "s", "t">>,
          <<"p", "r">>,
          <<"b", "r", "a", "n", "c", "h">>,
          <<"c", "o", "n", "f", "l", "i", "c", "t", " ", "r", "e", "s", "o", "l", "u", "t", "i", "o", "n">>
          >>
    @@ "Revert" :> <<
          <<"r", "e", "v", "e", "r", "t">>,
          <<"r", "o", "l", "l", "b", "a", "c", "k">>,
          <<"u", "n", "d", "o">>,
          <<"b", "a", "c", "k", " ", "o", "u", "t">>,
          <<"r", "e", "v", "e", "r", "s", "e">>
          >>

\* The keys of the HashMap in the order of their insertion.
KeywordCategories ==
    <<"Fix", "Feat", "Docs", "Style", "Refactor", "Test",
      "Perf", "Build", "Ci", "Chore", "Security", "Deps",
      "Config", "Deploy", "Init", "Wip", "Merge", "Revert">>

\* The orders in which a HashMap may iterate over its keys: the order is not
\* specified and differs from one map to the next.  Any key may come first;
\* these orders, one for each key with that key first, give every outcome
\* analyze_keywords has under any order, as only the first category with a
\* longest match is returned.
IterationOrders ==
    {<<c>> \o SelectSeq(KeywordCategories, LAMBDA k : k /= c) :
        c \in DOMAIN create_keyword_patterns}

\* The inner loop of analyze_keywords finding no keyword.
KeywordsFoundNone(msg) ==
    [c \in DOMAIN create_keyword_patterns |-> <<>>]

\* The keywords of each category that the message contains, as the inner
\* loop of analyze_keywords finds them: their lengths, in Vec order.
KeywordsFound(msg) ==
    [c \in DOMAIN create_keyword_patterns |->
        LET found == SelectSeq(create_keyword_patterns[c],
                               LAMBDA k : contains(msg, k))
        IN  [j \in 1..Len(found) |-> Len(found[j])]]

\* The Vec matches after the loops of analyze_keywords, for one iteration
\* order of the HashMap.
MatchesInOrder(found, order) ==
    Flatten([i \in 1..Len(order) |->
                [j \in 1..Len(found[order[i]]) |->
                    [category |-> order[i], len |-> found[order[i]][j]]]],
            1, Len(order))

\* matches[0] without the sort before it.
UnsortedHead(matches) ==
    matches[1]

\* matches.sort_by(|a, b| b.1.cmp(&a.1)) and matches[0]: the sort is stable,
\* so its head is the first of the matches with the greatest length.
SortedHead(matches) ==
    LET best == CHOOSE i \in 1..Len(matches) :
                    /\ \A j \in 1..Len(matches) : matches[j].len <= matches[i].len
                    /\ \A j \in 1..(i - 1) : matches[j].len < matches[i].len
    IN  matches[best]

\* fn analyze_keywords: the results it can return, one for each iteration
\* order of the HashMap.
analyze_keywords(msg) ==
    LET found == KeywordsFound(msg)
    IN  {LET matches == MatchesInOrder(found, order)
         IN  IF matches /= <<>> THEN <<SortedHead(matches).category>> ELSE <<>> :
            order \in IterationOrders}

\* analyze_context without its rules after the first.
analyze_context_docs_only(msg) ==
    IF \/ contains(msg, <<".", "m", "d">>)
       \/ contains(msg, <<"r", "e", "a", "d", "m", "e">>)
       \/ contains(msg, <<"d", "o", "c", "/">>)
    THEN <<"Docs">>
    ELSE <<>>

\* analyze_context with the rule of Config before the rule of Docs, and
\* without the rules after them.
analyze_context_config_first(msg) ==
    IF \/ contains(msg, <<".", "y", "m", "l">>)
       \/ contains(msg, <<".", "y", "a", "m", "l">>)
       \/ contains(msg, <<"c", "o", "n", "f", "i", "g">>)
       \/ contains(msg, <<".", "e", "n", "v">>)
    THEN <<"Config">>
    ELSE IF \/ contains(msg, <<".", "m", "d">>)
            \/ contains(msg, <<"r", "e", "a", "d", "m", "e">>)
            \/ contains(msg, <<"d", "o", "c", "/">>)
    THEN <<"Docs">>
    ELSE <<>>

\* fn analyze_context.
analyze_context(msg) ==
    IF \/ contains(msg, <<".", "m", "d">>)
       \/ contains(msg, <<"r", "e", "a", "d", "m", "e">>)
       \/ contains(msg, <<"d", "o", "c", "/">>)
    THEN <<"Docs">>
    ELSE IF \/ contains(msg, <<"p", "a", "c", "k", "a", "g", "e", ".", "j", "s", "o", "n">>)
            \/ contains(msg, <<"c", "a", "r", "g", "o", ".", "t", "o", "m", "l">>)
            \/ contains(msg, <<"r", "e", "q", "u", "i", "r", "e", "m", "e", "n", "t", "s", ".", "t", "x", "t">>)
            \/ contains(msg, <<"g", "e", "m", "f", "i", "l", "e">>)
    THEN <<"Deps">>
    ELSE IF \/ contains(msg, <<".", "y", "m", "l">>)
            \/ contains(msg, <<".", "y", "a", "m", "l">>)
            \/ contains(msg, <<"c", "o", "n", "f", "i", "g">>)
            \/ contains(msg, <<".", "e", "n", "v">>)
    THEN <<"Config">>
    ELSE IF \/ contains(msg, <<"d", "o", "c", "k", "e", "r", "f", "i", "l", "e">>)
            \/ contains(msg, <<"d", "o", "c", "k", "e", "r", "-", "c", "o", "m", "p", "o", "s", "e">>)
            \/ contains(msg, <<".", "g", "i", "t", "h", "u", "b", "/", "w", "o", "r", "k", "f", "l", "o", "w", "s">>)
            \/ contains(msg, <<"c", "i", "/">>)
    THEN <<"Ci">>
    ELSE IF \/ contains(msg, <<"t", "e", "s", "t", "/">>)
            \/ contains(msg, <<"s", "p", "e", "c", "/">>)
            \/ contains(msg, <<"_", "_", "t", "e", "s", "t", "s", "_", "_">>)
            \/ contains(msg, <<".", "t", "e", "s", "t", ".">>)
    THEN <<"Test">>
    ELSE <<>>

\* categorize_commit_message with the context stage before the keyword stage.
categorize_context_first(m) ==
    LET message_lower == to_lowercase(m)
        first_line == to_lowercase(first_line_of(m))
        conventional == parse_conventional_commit(first_line)
        context == analyze_context(message_lower)
    IN  IF conventional /= <<>> THEN {conventional[1]}
        ELSE IF context /= <<>> THEN {context[1]}
        ELSE {IF keyword /= <<>> THEN keyword[1] ELSE "Unknown" :
                 keyword \in analyze_keywords(message_lower)}

\* pub fn categorize_commit_message: the categories it can return, one for
\* each result of analyze_keywords.
categorize_commit_message(m) ==
    LET message_lower == to_lowercase(m)
        first_line == to_lowercase(first_line_of(m))
        conventional == parse_conventional_commit(first_line)
    IN  IF conventional /= <<>> THEN {conventional[1]}
        ELSE {IF keyword /= <<>> THEN keyword[1]
              ELSE LET context == analyze_context(message_lower)
                   IN  IF context /= <<>> THEN context[1] ELSE "Unknown" :
                 keyword \in analyze_keywords(message_lower)}

(***************************************************************************)
(* The messages: at most MaxParts parts, each one of MessageParts.         *)
(***************************************************************************)
MessageParts ==
    {<<"f", "e", "a", "t", ":", " ">>,
     <<"F", "i", "x">>,
     <<"a", "d", "d">>,
     <<".", "m", "d">>,
     <<".", "y", "m", "l">>,
     <<"\n">>,
     <<"z", "q", " ">>,
     <<"(", "u", "i", ")", ":", " ">>,
     <<"s", "e", "c", "u", "r", "i", "t", "y", " ">>,
     <<"h", "o", "t", "f", "i", "x">>,
     <<"\n", "f", "e", "a", "t", ":", " ">>,
     <<"f", "U+0131", "x">>}

Messages ==
    {Flatten(ps, 1, Len(ps)) : ps \in UNION {[1..n -> MessageParts] : n \in 0..MaxParts}}

(***************************************************************************)
(* categorize_commit_message called on a message.                          *)
(*   message   the commit message                                         *)
(*   category  what categorize_commit_message returned, <<>> before        *)
(***************************************************************************)
InitCat ==
    /\ message \in Messages
    /\ category = <<>>
    /\ diff = <<>>
    /\ pc = "start"
    /\ attempt = 0
    /\ tried = <<>>
    /\ result = <<>>
    /\ needs = <<>>
    /\ window = 0

Categorize ==
    /\ pc = "start"
    /\ \E c \in categorize_commit_message(message) : category' = <<c>>
    /\ pc' = "done"
    /\ UNCHANGED <<diff, attempt, tried, result, needs, window, message>>

NextCat ==
    Categorize

SpecCat ==
    InitCat /\ [][NextCat]_vars

(***************************************************************************)
(* The markers, src/emotes.rs.                                             *)
(***************************************************************************)
\* CommitCategory::emote(): the marker of a category, a string of one
\* character, or of one character and the variation selector U+FE0F.
emote(c) ==
    CASE c = "Fix" -> <<"U+1F41B">>
      [] c = "Feat" -> <<"U+2728">>
      [] c = "Chore" -> <<"U+1F9F9">>
      [] c = "Docs" -> <<"U+1F4DA">>
      [] c = "Style" -> <<"U+1F484">>
      [] c = "Refactor" -> <<"U+267B", "U+FE0F">>
      [] c = "Test" -> <<"U+1F9EA">>
      [] c = "Perf" -> <<"U+26A1">>
      [] c = "Build" -> <<"U+1F527">>
      [] c = "Ci" -> <<"U+1F477">>
      [] c = "Deploy" -> <<"U+1F680">>
      [] c = "Security" -> <<"U+1F512">>
      [] c = "Deps" -> <<"U+1F4E6">>
      [] c = "Revert" -> <<"U+23EA">>
      [] c = "Config" -> <<"U+2699", "U+FE0F">>
      [] c = "Init" -> <<"U+1F389">>
      [] c = "Wip" -> <<"U+1F6A7">>
      [] c = "Hotfix" -> <<"U+1F6A8">>
      [] c = "Release" -> <<"U+1F3F7", "U+FE0F">>
      [] c = "Merge" -> <<"U+1F500">>
      [] c = "Unknown" -> <<"U+2753">>

\* The code points of the characters outside ASCII.
CodePoints ==
       "U+00DF" :> 223
    @@ "U+00E9" :> 233
    @@ "U+0130" :> 304
    @@ "U+0131" :> 305
    @@ "U+0307" :> 775
    @@ "U+23EA" :> 9194
    @@ "U+267B" :> 9851
    @@ "U+2699" :> 9881
    @@ "U+26A1" :> 9889
    @@ "U+2728" :> 10024
    @@ "U+2753" :> 10067
    @@ "U+FE0F" :> 65039
    @@ "U+1F389" :> 127881
    @@ "U+1F3F7" :> 127991
    @@ "U+1F41B" :> 128027
    @@ "U+1F477" :> 128119
    @@ "U+1F484" :> 128132
    @@ "U+1F4DA" :> 128218
    @@ "U+1F4E6" :> 128230
    @@ "U+1F500" :> 128256
    @@ "U+1F512" :> 128274
    @@ "U+1F527" :> 128295
    @@ "U+1F680" :> 128640
    @@ "U+1F6A7" :> 128679
    @@ "U+1F6A8" :> 128680
    @@ "U+1F9EA" :> 129514
    @@ "U+1F9F9" :> 129529

\* The characters of ASCII from the space (32) to the underscore (95), and
\* those from "a" (97) to the tilde (126).
AsciiChars ==
    <<" ", "!", "\"", "#", "$", "%", "&", "'", "(", ")", "*", "+", ",", "-", ".", "/",
      "0", "1", "2", "3", "4", "5", "6", "7", "8", "9", ":", ";", "<", "=", ">", "?",
      "@", "A", "B", "C", "D", "E", "F", "G", "H", "I", "J", "K", "L", "M", "N", "O",
      "P", "Q", "R", "S", "T", "U", "V", "W", "X", "Y", "Z", "[", "\\", "]", "^", "_">>

AsciiLowerChars ==
    LowerCase \o <<"{", "|", "}", "~">>

\* The code point of a character (a char as u32).
CodePoint(c) ==
    IF c \in DOMAIN CodePoints THEN CodePoints[c]
    ELSE IF c = "\t" THEN 9
    ELSE IF c = "\n" THEN 10
    ELSE IF c = "\r" THEN 13
    ELSE IF \E i \in 1..Len(AsciiChars) : AsciiChars[i] = c
    THEN 31 + (CHOOSE i \in 1..Len(AsciiChars) : AsciiChars[i] = c)
    ELSE 96 + (CHOOSE i \in 1..Len(AsciiLowerChars) : AsciiLowerChars[i] = c)

\* str::trim() of a message: without the whitespace at its two ends.
trim(s) ==
    LET kept == {i \in 1..Len(s) : ~IsWhitespace(s[i])}
    IN  IF kept = {} THEN <<>>
        ELSE SubSeq(s, CHOOSE i \in kept : \A j \in kept : i <= j,
                       CHOOSE i \in kept : \A j \in kept : j <= i)

\* starts_with_emote with the range U+2300..U+23FF among its ranges.
starts_with_emote_wide(msg) ==
    /\ msg /= <<>>
    /\ LET first_char == CodePoint(msg[1])
       IN  \/ 127744 <= first_char /\ first_char <= 129535
           \/ 8960 <= first_char /\ first_char <= 9215
           \/ 9728 <= first_char /\ first_char <= 9983
           \/ 9984 <= first_char /\ first_char <= 10175
           \/ 127456 <= first_char /\ first_char <= 127487

\* fn starts_with_emote: the first character is in U+1F300..U+1F9FF,
\* U+2600..U+26FF, U+2700..U+27BF or U+1F1E0..U+1F1FF.
starts_with_emote(msg) ==
    /\ msg /= <<>>
    /\ LET first_char == CodePoint(msg[1])
       IN  \/ 127744 <= first_char /\ first_char <= 129535
           \/ 9728 <= first_char /\ first_char <= 9983
           \/ 9984 <= first_char /\ first_char <= 10175
           \/ 127456 <= first_char /\ first_char <= 127487

\* pub fn add_emote_to_commit_message.
add_emote_to_commit_message(msg, c) ==
    LET trimmed_message == trim(msg)
    IN  IF starts_with_emote(trimmed_message)
        THEN trimmed_message
        ELSE emote(c) \o <<" ">> \o trimmed_message

\* process_commit_message with the marker of Unknown whatever the category.
process_as_unknown(msg) ==
    {[category |-> c, text |-> add_emote_to_commit_message(msg, "Unknown")] :
        c \in categorize_commit_message(msg)}

\* pub fn process_commit_message: the strings it can return, each with the
\* category its call of categorize_commit_message returned.
process_commit_message(msg) ==
    {[category |-> c, text |-> add_emote_to_commit_message(msg, c)] :
        c \in categorize_commit_message(msg)}

(***************************************************************************)
(* add_emote_to_commit_message and process_commit_message called on a      *)
(* message of at most MaxParts parts, each one of EmoteParts.  The category*)
(* given to add_emote_to_commit_message is kept in category, the String    *)
(* returned in result.                                                     *)
(***************************************************************************)
EmoteParts ==
    {<<" ">>,
     <<"F", "i", "x">>,
     <<"f", "e", "a", "t", ":", " ", "x">>,
     <<"R", "a", "n", "d", "o", "m">>,
     <<"U+2728">>,
     <<"U+23EA">>}

EmoteMessages ==
    {Flatten(ps, 1, Len(ps)) : ps \in UNION {[1..n -> EmoteParts] : n \in 0..MaxParts}}

InitEmote ==
    /\ message \in EmoteMessages
    /\ category = <<>>
    /\ diff = <<>>
    /\ pc = "start"
    /\ attempt = 0
    /\ tried = <<>>
    /\ result = <<>>
    /\ needs = <<>>
    /\ window = 0

AddEmote ==
    /\ pc = "start"
    /\ \E c \in CommitCategory :
          /\ category' = <<c>>
          /\ result' = <<add_emote_to_commit_message(message, c)>>
    /\ pc' = "decorated"
    /\ UNCHANGED <<diff, attempt, tried, needs, window, message>>

ProcessMessage ==
    /\ pc = "start"
    /\ \E r \in process_commit_message(message) :
          /\ category' = <<r.category>>
          /\ result' = <<r.text>>
    /\ pc' = "processed"
    /\ UNCHANGED <<diff, attempt, tried, needs, window, message>>

NextEmote ==
    \/ AddEmote
    \/ ProcessMessage

SpecEmote ==
    InitEmote /\ [][NextEmote]_vars

(***************************************************************************)
(* categorize_commit_message called on the texts of the context stage: a   *)
(* marker of analyze_context alone or with a word before or after it, or a *)
(* message of test_context_analysis.                                       *)
(***************************************************************************)
\* The markers of analyze_context, in the order of its rules.
ContextMarkers ==
    <<
      <<".", "m", "d">>,
      <<"r", "e", "a", "d", "m", "e">>,
      <<"d", "o", "c", "/">>,
      <<"p", "a", "c", "k", "a", "g", "e", ".", "j", "s", "o",
        "n">>,
      <<"c", "a", "r", "g", "o", ".", "t", "o", "m", "l">>,
      <<"r", "e", "q", "u", "i", "r", "e", "m", "e", "n", "t",
        "s", ".", "t", "x", "t">>,
      <<"g", "e", "m", "f", "i", "l", "e">>,
      <<".", "y", "m", "l">>,
      <<".", "y", "a", "m", "l">>,
      <<"c", "o", "n", "f", "i", "g">>,
      <<".", "e", "n", "v">>,
      <<"d", "o", "c", "k", "e", "r", "f", "i", "l", "e">>,
      <<"d", "o", "c", "k", "e", "r", "-", "c", "o", "m", "p",
        "o", "s", "e">>,
      <<".", "g", "i", "t", "h", "u", "b", "/", "w", "o", "r",
        "k", "f", "l", "o", "w", "s">>,
      <<"c", "i", "/">>,
      <<"t", "e", "s", "t", "/">>,
      <<"s", "p", "e", "c", "/">>,
      <<"_", "_", "t", "e", "s", "t", "s", "_", "_">>,
      <<".", "t", "e", "s", "t", ".">>
    >>

\* The messages of test_context_analysis.
ContextTests ==
    {
      <<"U", "p", "d", "a", "t", "e", " ", "R", "E", "A", "D",
        "M", "E", ".", "m", "d", " ", "w", "i", "t", "h", " ",
        "i", "n", "s", "t", "a", "l", "l", "a", "t", "i", "o",
        "n", " ", "i", "n", "s", "t", "r", "u", "c", "t", "i",
        "o", "n", "s">>,
      <<"B", "u", "m", "p", " ", "p", "a", "c", "k", "a", "g",
        "e", ".", "j", "s", "o", "n", " ", "v", "e", "r", "s",
        "i", "o", "n">>,
      <<"A", "d", "d", " ", ".", "g", "i", "t", "h", "u", "b",
        "/", "w", "o", "r", "k", "f", "l", "o", "w", "s", "/",
        "c", "i", ".", "y", "m", "l">>,
      <<"U", "p", "d", "a", "t", "e", " ", "c", "o", "n", "f",
        "i", "g", ".", "y", "a", "m", "l", " ", "s", "e", "t",
        "t", "i", "n", "g", "s">>,
      <<"A", "d", "d", " ", "t", "e", "s", "t", "/", "u", "s",
        "e", "r", ".", "s", "p", "e", "c", ".", "j", "s">>
    }

\* A text before or after a marker: none, or a word that is no keyword.
ContextAround ==
    {<<>>, <<"z", "q", " ">>}

ContextMessages ==
    {before \o ContextMarkers[i] \o after :
        before \in ContextAround, i \in 1..Len(ContextMarkers), after \in ContextAround}
    \cup ContextTests

InitContext ==
    /\ message \in ContextMessages
    /\ category = <<>>
    /\ diff = <<>>
    /\ pc = "start"
    /\ attempt = 0
    /\ tried = <<>>
    /\ result = <<>>
    /\ needs = <<>>
    /\ window = 0

NextContext ==
    Categorize

SpecContext ==
    InitContext /\ [][NextContext]_vars

(***************************************************************************)
(* The claims.                                                             *)
(***************************************************************************)
Returned ==
    pc = "done" /\ result /= <<>>

Succeeded ==
    Returned /\ result[1].tag = "Ok"

\* C1: every chunk of a successful result of split_large_diff, whatever its
\* strategy tag, has a content of at most DIFF_SIZE_THRESHOLD bytes.
C1_ChunksWithinThreshold ==
    Succeeded =>
        /\ result[1].split_method \in {"none", "by_files", "by_hunks", "by_characters"}
        /\ \A i \in 1..Len(result[1].chunks) :
              StrLen(result[1].chunks[i].content) <= DIFF_SIZE_THRESHOLD

\* C1 witness: a by-hunk result returned after the by-file result was
\* discarded for an oversized chunk.
C1_Witness ==
    /\ Succeeded
    /\ result[1].split_method = "by_hunks"
    /\ Len(result[1].chunks) >= 2
    /\ split_by_files(diff).tag = "Ok"
    /\ \E i \in 1..Len(split_by_files(diff).chunks) :
          StrLen(split_by_files(diff).chunks[i].content) > DIFF_SIZE_THRESHOLD

\* C2: a diff of at most DIFF_SIZE_THRESHOLD bytes is returned as one chunk
\* equal to the diff, tagged "none", with total_size the length of the diff.
C2_SmallDiffUnsplit ==
    (Returned /\ StrLen(diff) <= DIFF_SIZE_THRESHOLD) =>
        /\ result[1].tag = "Ok"
        /\ Len(result[1].chunks) = 1
        /\ result[1].chunks[1].content = diff
        /\ result[1].split_method = "none"
        /\ result[1].total_size = StrLen(diff)
        /\ tried = <<>>

\* C2 witness: a diff of exactly DIFF_SIZE_THRESHOLD bytes came back unsplit.
C2_Witness ==
    /\ Succeeded
    /\ StrLen(diff) = DIFF_SIZE_THRESHOLD
    /\ result[1].split_method = "none"
    /\ result[1].chunks[1].content = diff

\* The order of the strategies as the claim C3 states it.
C3_Order(d, j) ==
    CASE j = 1 -> split_by_files(d)
      [] j = 2 -> split_by_hunks(d)
      [] j = 3 -> split_by_character_chunks(d, 4000)
      [] j = 4 -> split_by_character_chunks(d, 2000)

C3_Accepted(r) ==
    /\ r.tag = "Ok"
    /\ \A i \in 1..Len(r.chunks) : StrLen(r.chunks[i].content) <= 8000

\* C3: for a diff longer than the threshold the strategies are tried in the
\* order by-file, by-hunk, window of 4000, window of 2000, and a returned
\* result is that of the first strategy of this order that succeeds with
\* every chunk within the threshold.
C3_FirstValidStrategyWins ==
    /\ \A i \in 1..Len(tried) : tried[i] = i - 1
    /\ Len(tried) <= 4
    /\ (Returned /\ StrLen(diff) > DIFF_SIZE_THRESHOLD /\ result[1].tag = "Ok") =>
          /\ tried /= <<>>
          /\ result[1] = C3_Order(diff, Len(tried))
          /\ C3_Accepted(result[1])
          /\ \A j \in 1..(Len(tried) - 1) : ~C3_Accepted(C3_Order(diff, j))

\* C3 witness: the window of 4000 was returned after by-file failed and
\* by-hunk produced an oversized chunk.
C3_Witness ==
    /\ Succeeded
    /\ tried = <<0, 1, 2>>
    /\ result[1].split_method = "by_characters"
    /\ split_by_files(diff).tag = "Err"
    /\ split_by_hunks(diff).tag = "Ok"
    /\ ~C3_Accepted(split_by_hunks(diff))

\* The contents of the chunks of a result, in order.
Contents(r) ==
    [i \in 1..Len(r.chunks) |-> r.chunks[i].content]

\* C4: for every text and every window w >= 1 the character-window split
\* returns chunks whose concatenation is the text, each of w characters but
\* the last, which has 1..w.
C4_WindowsPartitionText ==
    Returned =>
        /\ result[1].tag = "Ok"
        /\ CatAll(Contents(result[1])) = diff
        /\ \A i \in 1..Len(result[1].chunks) :
              LET n == CharCount(result[1].chunks[i].content)
              IN  IF i < Len(result[1].chunks) THEN n = window
                  ELSE 1 <= n /\ n <= window

\* The lines of the chunks of a result, in the order of the chunks.
C5_ChunkLines(r) ==
    Flatten([i \in 1..Len(r.chunks) |-> Lines(r.chunks[i].content)],
            1, Len(r.chunks))

C5_IsHeader(line) ==
    \/ StartsWith(line, DIFF_GIT) \/ StartsWith(line, INDEX_SP)
    \/ StartsWith(line, MINUS_SP) \/ StartsWith(line, PLUS_SP)

\* Lines without the whitespace at their ends, blank lines left out.
C5_Norm(ls) ==
    SelectSeq([i \in 1..Len(ls) |-> Trim(ls[i])], LAMBDA l : l /= <<>>)

\* The lines of d from its first "diff --git" line on.
C5_FromFirstFile(d) ==
    LET ls == Lines(d)
        marks == SelectSeq([i \in 1..Len(ls) |-> i],
                           LAMBDA i : StartsWith(ls[i], DIFF_GIT))
    IN  IF marks = <<>> THEN <<>> ELSE SubSeq(ls, marks[1], Len(ls))

\* The text of the lines ls, each ended by a newline.
C5_Join(ls) ==
    CatAll([i \in 1..Len(ls) |-> Cat(ls[i], Rep("\n", 1))])

RECURSIVE C5_Match(_, _, _, _, _)
\* The chunks i.. are each some leading header lines of the diff followed by
\* lines that, taken together, are the lines body[pos..].
C5_Match(chunks, i, header, body, pos) ==
    IF i > Len(chunks) THEN pos = Len(body) + 1
    ELSE \E h \in 0..Len(header) :
            LET prefix == C5_Join(SubSeq(header, 1, h))
                c == chunks[i].content
            IN  /\ StartsWith(c, prefix)
                /\ LET own == C5_Norm(Lines(Slice(c, RunEnds(c), StrLen(prefix),
                                                  StrLen(c))))
                   IN  /\ pos + Len(own) - 1 <= Len(body)
                       /\ SubSeq(body, pos, pos + Len(own) - 1) = own
                       /\ C5_Match(chunks, i + 1, header, body, pos + Len(own))

C6_LargeDiffAlwaysSplit ==
    (Returned /\ StrLen(diff) > DIFF_SIZE_THRESHOLD) =>
        /\ result[1].tag = "Ok"
        /\ split_by_character_chunks(diff, 4000).tag = "Ok"
        /\ \A i \in 1..Len(split_by_character_chunks(diff, 4000).chunks) :
              StrLen(split_by_character_chunks(diff, 4000).chunks[i].content) <= 4000

\* C7: the un-splittable error is returned exactly when the diff is longer
\* than the threshold and none of the four strategies gives a result with
\* every chunk within the threshold; the error carries no chunks and no
\* fifth attempt is made.
C7_ErrorExactlyWhenAllFail ==
    Returned =>
        /\ result[1].tag = "Err" <=>
              /\ StrLen(diff) > DIFF_SIZE_THRESHOLD
              /\ \A j \in 1..4 : ~C3_Accepted(C3_Order(diff, j))
        /\ result[1].tag = "Err" => "chunks" \notin DOMAIN result[1]
        /\ Len(tried) <= 4

\* No line of d starts with "diff --git" or with "@@".
C8_NoMarkers(d) ==
    \A i \in 1..Len(Lines(d)) :
        /\ ~StartsWith(Lines(d)[i], DIFF_GIT)
        /\ ~StartsWith(Lines(d)[i], AT_AT)

\* C8: a diff longer than the threshold without any "diff --git" or "@@"
\* line is split successfully, and by a character window.
C8_UnmarkedDiffByCharacters ==
    (Returned /\ StrLen(diff) > DIFF_SIZE_THRESHOLD /\ C8_NoMarkers(diff)) =>
        /\ result[1].tag = "Ok"
        /\ result[1].split_method = "by_characters"

\* C9: needs_splitting is true exactly when the diff has more than
\* DIFF_SIZE_THRESHOLD characters.
C9_NeedsSplittingCountsCharacters ==
    needs /= <<>> => (needs[1] <=> CharCount(diff) > DIFF_SIZE_THRESHOLD)

\* The markers of the context stage.
C10_ContextMarkers ==
    {<<".", "m", "d">>,
     <<"r", "e", "a", "d", "m", "e">>,
     <<"d", "o", "c", "/">>,
     <<"p", "a", "c", "k", "a", "g", "e", ".", "j", "s", "o", "n">>,
     <<"c", "a", "r", "g", "o", ".", "t", "o", "m", "l">>,
     <<"r", "e", "q", "u", "i", "r", "e", "m", "e", "n", "t", "s", ".", "t", "x", "t">>,
     <<"g", "e", "m", "f", "i", "l", "e">>,
     <<".", "y", "m", "l">>,
     <<".", "y", "a", "m", "l">>,
     <<"c", "o", "n", "f", "i", "g">>,
     <<".", "e", "n", "v">>,
     <<"d", "o", "c", "k", "e", "r", "f", "i", "l", "e">>,
     <<"d", "o", "c", "k", "e", "r", "-", "c", "o", "m", "p", "o", "s", "e">>,
     <<".", "g", "i", "t", "h", "u", "b", "/", "w", "o", "r", "k", "f", "l", "o", "w", "s">>,
     <<"c", "i", "/">>,
     <<"t", "e", "s", "t", "/">>,
     <<"s", "p", "e", "c", "/">>,
     <<"_", "_", "t", "e", "s", "t", "s", "_", "_">>,
     <<".", "t", "e", "s", "t", ".">>}

\* The lower-cased first line of the message has the form of a structured
\* prefix for some keyword of the table.
C10_HasPrefix ==
    LET line == to_lowercase(first_line_of(message))
    IN  \E i \in 1..Len(conventional_patterns) :
            LET k == conventional_patterns[i].pattern
            IN  \/ starts_with(line, k \o <<":">>)
                \/ contains(line, k \o <<"(">>) /\ contains(line, <<")", ":">>)

\* The lower-cased message contains a keyword of the keyword table.
C10_HasKeyword ==
    LET lower == to_lowercase(message)
    IN  \E c \in DOMAIN create_keyword_patterns :
            \E j \in 1..Len(create_keyword_patterns[c]) :
                contains(lower, create_keyword_patterns[c][j])

\* The lower-cased message contains a context marker.
C10_HasMarker ==
    LET lower == to_lowercase(message)
    IN  \E marker \in C10_ContextMarkers : contains(lower, marker)

\* C10: categorize_commit_message returns for every message, the empty one
\* included, exactly one category of the enumeration, and that category is
\* Unknown exactly when the first line has no structured prefix and the
\* lower-cased message contains no keyword and no context marker.
C10_TotalWithUnknownFallback ==
    /\ pc = "start" =>
        LET returns == categorize_commit_message(message)
        IN  returns /= {} /\ returns \subseteq CommitCategory
    /\ pc = "done" =>
        /\ Len(category) = 1
        /\ category[1] \in CommitCategory
        /\ category[1] = "Unknown" <=>
              ~C10_HasPrefix /\ ~C10_HasKeyword /\ ~C10_HasMarker

\* A message of two lines is Unknown although its second line has a
\* structured prefix: only the first line counts for that stage.
C10_Witness ==
    /\ category = <<"Unknown">>
    /\ \E i \in 1..Len(message) :
          /\ message[i] = "\n"
          /\ parse_conventional_commit(
                 to_lowercase(SubSeq(message, i + 1, Len(message)))) /= <<>>

\* C11: categorize_commit_message is deterministic: every evaluation on the
\* message returns the category that the evaluation made has returned, also
\* when keywords of two categories share the greatest length.
C11_Deterministic ==
    pc = "done" /\ category /= <<>> =>
        categorize_commit_message(message) = {category[1]}

\* The categories the keyword stage can return for the lower-cased message.
C12_KeywordResults ==
    {k[1] : k \in {r \in analyze_keywords(to_lowercase(message)) : r /= <<>>}}

\* C12: the stages are applied in the order structured prefix, keyword,
\* context, Unknown and the first applicable one decides: with a structured
\* prefix on the first line the result is the prefix's category whatever
\* keywords and markers the message contains; otherwise with a keyword in
\* the message the result is one of the keyword stage; otherwise with a
\* context marker it is the one of the context stage; otherwise Unknown.
C12_FirstApplicableStageDecides ==
    pc = "done" /\ category /= <<>> =>
        IF C10_HasPrefix
        THEN <<category[1]>> =
                parse_conventional_commit(to_lowercase(first_line_of(message)))
        ELSE IF C10_HasKeyword
        THEN category[1] \in C12_KeywordResults
        ELSE IF C10_HasMarker
        THEN <<category[1]>> = analyze_context(to_lowercase(message))
        ELSE category[1] = "Unknown"

\* A message with a structured prefix and a keyword of another category
\* has the category of the prefix.
C12_Witness ==
    /\ pc = "done" /\ category /= <<>>
    /\ C10_HasPrefix
    /\ C10_HasKeyword
    /\ category[1] \notin C12_KeywordResults

\* The lower-cased text of m before its first newline.
C13_Line(m) ==
    LET nl == {i \in 1..Len(m) : m[i] = "\n"}
        first == IF nl = {} THEN Len(m) + 1
                 ELSE CHOOSE i \in nl : \A j \in nl : i <= j
    IN  to_lowercase(SubSeq(m, 1, first - 1))

\* The entries of the table that the line matches: it starts with "k:", or
\* contains "k(" and contains "):".
C13_Entries(line) ==
    {i \in 1..Len(conventional_patterns) :
        LET k == conventional_patterns[i].pattern
        IN  \/ starts_with(line, k \o <<":">>)
            \/ contains(line, k \o <<"(">>) /\ contains(line, <<")", ":">>)}

\* The category of the first entry, in declaration order, that the line
\* matches; no match if there is none.
C13_Expected(line) ==
    IF C13_Entries(line) = {} THEN <<>>
    ELSE <<conventional_patterns[CHOOSE i \in C13_Entries(line) :
                \A j \in C13_Entries(line) : i <= j].category>>

\* The structured-prefix stage as categorize_commit_message calls it on m.
C13_Stage(m) ==
    parse_conventional_commit(to_lowercase(first_line_of(m)))

\* C13: the structured-prefix stage returns the category of the first entry
\* of the table, in declaration order, that the lower-cased first line of
\* the message matches, and no match if no entry does; a match is the
\* result of categorize_commit_message; further lines of text after the
\* message do not change the result of the stage.
C13_FirstEntryOfFirstLine ==
    pc = "done" /\ category /= <<>> =>
        /\ C13_Stage(message) = C13_Expected(C13_Line(message))
        /\ C13_Expected(C13_Line(message)) /= <<>> =>
              category = C13_Expected(C13_Line(message))
        /\ \A later \in MessageParts :
              C13_Stage(message \o <<"\n">> \o later) = C13_Stage(message)

\* The first line matches entries of two categories and the message has
\* the category of the earlier entry.
C13_Witness ==
    /\ pc = "done" /\ category /= <<>>
    /\ \E i, j \in C13_Entries(C13_Line(message)) :
          /\ i < j
          /\ conventional_patterns[i].category /= conventional_patterns[j].category
          /\ \A h \in C13_Entries(C13_Line(message)) : i <= h
          /\ category = <<conventional_patterns[i].category>>

\* The keywords of the table that occur in the lower-cased message, each
\* with its category.
C14_Occurring ==
    LET lower == to_lowercase(message)
    IN  {e \in UNION {{[category |-> c, keyword |-> create_keyword_patterns[c][j]] :
                         j \in 1..Len(create_keyword_patterns[c])} :
                      c \in DOMAIN create_keyword_patterns} :
            contains(lower, e.keyword)}

\* C14: for a message without a structured prefix on its first line whose
\* lower-cased text contains a keyword of the table, the category returned
\* owns a keyword of the greatest length among the keywords that occur.
C14_LongestKeywordWins ==
    (pc = "done" /\ category /= <<>> /\ ~C10_HasPrefix /\ C10_HasKeyword) =>
        LET occurring == C14_Occurring
        IN  \E e \in occurring :
                /\ e.category = category[1]
                /\ \A o \in occurring : Len(o.keyword) <= Len(e.keyword)

\* A shorter keyword of another category occurs in the message as well.
C14_Witness ==
    /\ pc = "done" /\ category /= <<>>
    /\ ~C10_HasPrefix
    /\ \E e, o \in C14_Occurring :
          /\ e.category = category[1]
          /\ o.category /= category[1]
          /\ Len(o.keyword) < Len(e.keyword)
          /\ \A x \in C14_Occurring : Len(x.keyword) <= Len(e.keyword)

\* The rules of the context stage in their order, each with its markers.
C15_Rules ==
    <<[category |-> "Docs",
       markers |-> {<<".", "m", "d">>, <<"r", "e", "a", "d", "m", "e">>,
                    <<"d", "o", "c", "/">>}],
      [category |-> "Deps",
       markers |-> {<<"p", "a", "c", "k", "a", "g", "e", ".", "j", "s", "o", "n">>,
                    <<"c", "a", "r", "g", "o", ".", "t", "o", "m", "l">>,
                    <<"r", "e", "q", "u", "i", "r", "e", "m", "e", "n", "t", "s",
                      ".", "t", "x", "t">>,
                    <<"g", "e", "m", "f", "i", "l", "e">>}],
      [category |-> "Config",
       markers |-> {<<".", "y", "m", "l">>, <<".", "y", "a", "m", "l">>,
                    <<"c", "o", "n", "f", "i", "g">>, <<".", "e", "n", "v">>}],
      [category |-> "Ci",
       markers |-> {<<"d", "o", "c", "k", "e", "r", "f", "i", "l", "e">>,
                    <<"d", "o", "c", "k", "e", "r", "-", "c", "o", "m", "p", "o",
                      "s", "e">>,
                    <<".", "g", "i", "t", "h", "u", "b", "/", "w", "o", "r", "k",
                      "f", "l", "o", "w", "s">>,
                    <<"c", "i", "/">>}],
      [category |-> "Test",
       markers |-> {<<"t", "e", "s", "t", "/">>, <<"s", "p", "e", "c", "/">>,
                    <<"_", "_", "t", "e", "s", "t", "s", "_", "_">>,
                    <<".", "t", "e", "s", "t", ".">>}]>>

\* The rules one of whose markers occurs in the lower-cased message.
C15_Applicable ==
    LET lower == to_lowercase(message)
    IN  {i \in 1..Len(C15_Rules) :
            \E marker \in C15_Rules[i].markers : contains(lower, marker)}

\* C15: when the context stage is reached, no structured prefix and no
\* keyword having matched, the result is the category of the first rule, in
\* the order Docs, Deps, Config, Ci, Test, one of whose markers occurs in
\* the lower-cased message, and there is no context result (the category
\* is Unknown) when no rule has one.
C15_FirstContextRuleWins ==
    (pc = "done" /\ category /= <<>> /\ ~C10_HasPrefix /\ ~C10_HasKeyword) =>
        IF C15_Applicable = {}
        THEN category[1] = "Unknown"
        ELSE category[1] =
                C15_Rules[CHOOSE i \in C15_Applicable :
                             \A j \in C15_Applicable : i <= j].category

\* The context stage is reached with markers of two rules in the message,
\* and the earlier rule gives the category.
C15_Witness ==
    /\ pc = "done" /\ category /= <<>>
    /\ ~C10_HasPrefix
    /\ ~C10_HasKeyword
    /\ \E i, j \in C15_Applicable : i < j /\ category[1] = C15_Rules[i].category

\* The upper case of one character, as char::to_uppercase() gives it: the
\* dotless i (U+0131) becomes "I" and the sharp s (U+00DF) becomes "SS".
C16_UpperChar(c) ==
    IF \E i \in 1..Len(LowerCase) : LowerCase[i] = c
    THEN <<UpperCase[CHOOSE i \in 1..Len(LowerCase) : LowerCase[i] = c]>>
    ELSE IF c = "U+0131" THEN <<"I">>
    ELSE IF c = "U+00DF" THEN <<"S", "S">>
    ELSE <<c>>

\* The message converted to upper case.
C16_Upper(m) ==
    Flatten([i \in 1..Len(m) |-> C16_UpperChar(m[i])], 1, Len(m))

\* C16: categorize_commit_message is case-insensitive: on the message
\* converted to lower case and on the message converted to upper case it
\* returns the category it has returned on the message.
C16_CaseInsensitive ==
    pc = "done" /\ category /= <<>> =>
        /\ categorize_commit_message(to_lowercase(message)) = {category[1]}
        /\ categorize_commit_message(C16_Upper(message)) = {category[1]}

\* The character is in one of the recognized symbol ranges U+1F300..U+1F9FF,
\* U+2600..U+26FF, U+2700..U+27BF, U+1F1E0..U+1F1FF.
C17_Recognized(c) ==
    \E range \in {<<127744, 129535>>, <<9728, 9983>>, <<9984, 10175>>,
                   <<127456, 127487>>} :
        range[1] <= CodePoint(c) /\ CodePoint(c) <= range[2]

\* C17: add_emote_to_commit_message returns a String for every message and
\* category: the trimmed message unchanged when its first character is in a
\* recognized symbol range, otherwise the marker of the category, one
\* space and the trimmed message in its original casing.
C17_DecorateResult ==
    pc = "decorated" =>
        /\ Len(result) = 1
        /\ LET trimmed == trim(message)
           IN  IF trimmed /= <<>> /\ C17_Recognized(trimmed[1])
               THEN result[1] = trimmed
               ELSE result[1] = emote(category[1]) \o <<" ">> \o trimmed

\* A message with whitespace before a recognized symbol is returned
\* trimmed and without a marker added.
C17_Witness ==
    /\ pc = "decorated"
    /\ Len(message) > 1
    /\ message[1] = " "
    /\ message[2] = "U+2728"
    /\ result = <<trim(message)>>

\* C18: add_emote_to_commit_message is idempotent: applied with the same
\* category to the String it returned, it returns that String.
C18_DecorateIdempotent ==
    pc = "decorated" =>
        add_emote_to_commit_message(result[1], category[1]) = result[1]

\* C19: process_commit_message returns, for every message, the String that
\* add_emote_to_commit_message returns on the message and the category that
\* categorize_commit_message returned; for a message whose trimmed form
\* does not start with a recognized symbol that is the marker of the
\* category, one space and the trimmed message ("Random" gives the marker
\* of Unknown and " Random", "feat: x" the marker of Feat and " feat: x").
C19_ProcessIsComposition ==
    pc = "processed" =>
        /\ Len(result) = 1
        /\ Len(category) = 1
        /\ category[1] \in categorize_commit_message(message)
        /\ result[1] = add_emote_to_commit_message(message, category[1])
        /\ LET trimmed == trim(message)
           IN  ~(trimmed /= <<>> /\ C17_Recognized(trimmed[1])) =>
                  result[1] = emote(category[1]) \o <<" ">> \o trimmed
        /\ message = <<"R", "a", "n", "d", "o", "m">> =>
              result[1] = <<"U+2753", " ", "R", "a", "n", "d", "o", "m">>
        /\ message = <<"f", "e", "a", "t", ":", " ", "x">> =>
              result[1] = <<"U+2728", " ", "f", "e", "a", "t", ":", " ", "x">>

\* A message with a structured prefix and whitespace at its end has got
\* the marker of Feat in front of its trimmed text.
C19_Witness ==
    /\ pc = "processed"
    /\ message = <<"f", "e", "a", "t", ":", " ", "x", " ">>
    /\ result = <<<<"U+2728", " ", "f", "e", "a", "t", ":", " ", "x">>>>

\* The header lines a chunk begins with.
C20_ChunkHeader(c) ==
    LET ls == Lines(c)
        others == SelectSeq([i \in 1..Len(ls) |-> i],
                            LAMBDA i : ~C5_IsHeader(ls[i]))
    IN  SubSeq(ls, 1, IF others = <<>> THEN Len(ls) ELSE others[1] - 1)

\* The chunks whose text after the header begins with a "@@" line: the
\* chunks of the hunks, in the order of the hunks.
C20_HunkChunks(r) ==
    SelectSeq(r.chunks,
              LAMBDA c : LET ls == Lines(c.content)
                             h == Len(C20_ChunkHeader(c.content))
                         IN  h < Len(ls) /\ StartsWith(ls[h + 1], AT_AT))

\* The header lines of the file that line h of the lines ls belongs to:
\* those from the last "diff --git" line before h on.
C20_FileHeaderOf(ls, h) ==
    LET gits == SelectSeq([i \in 1..(h - 1) |-> i],
                          LAMBDA i : StartsWith(ls[i], DIFF_GIT))
        from == IF gits = <<>> THEN 1 ELSE gits[Len(gits)]
    IN  SelectSeq(SubSeq(ls, from, h - 1), C5_IsHeader)

\* C20: in a by-hunk split of a diff with several files, one that begins
\* with the "diff --git" line of a file and has no two such lines alike,
\* the chunk of each hunk begins with the header lines of the file of the
\* hunk and with no header line of another file.
C20_ChunkHasHeaderOfItsFile ==
    LET ls == Lines(diff)
        hunks == SelectSeq([i \in 1..Len(ls) |-> i],
                           LAMBDA i : StartsWith(ls[i], AT_AT))
        files == SelectSeq(ls, LAMBDA l : StartsWith(l, DIFF_GIT))
        several == /\ ls /= <<>>
                   /\ StartsWith(ls[1], DIFF_GIT)
                   /\ Len(files) >= 2
                   /\ \A i, j \in 1..Len(files) : i /= j => files[i] /= files[j]
    IN  (pc = "hunks" /\ result[1].tag = "Ok" /\ several) =>
            LET chunks == C20_HunkChunks(result[1])
            IN  /\ Len(chunks) = Len(hunks)
                /\ \A j \in 1..Len(chunks) :
                      C20_ChunkHeader(chunks[j].content)
                          = C20_FileHeaderOf(ls, hunks[j])

\* The indices of the lines of d that start with p.
C21_LinesWith(d, p) ==
    SelectSeq([i \in 1..Len(Lines(d)) |-> i],
              LAMBDA i : StartsWith(Lines(d)[i], p))

\* C21: split_by_hunks fails exactly when no line of the diff starts with
\* "@@", and a result of it has one chunk for each such line.
C21_HunksFailWithoutHunkLine ==
    pc = "hunks" =>
        /\ result[1].tag = "Err" <=> C21_LinesWith(diff, AT_AT) = <<>>
        /\ result[1].tag = "Ok" =>
              Len(result[1].chunks) = Len(C21_LinesWith(diff, AT_AT))

\* The lines of the i-th file section of d: from the i-th "diff --git" line
\* up to the line before the next one, or to the last line.
C22_Section(d, i) ==
    LET gits == C21_LinesWith(d, DIFF_GIT)
    IN  SubSeq(Lines(d), gits[i],
               IF i < Len(gits) THEN gits[i + 1] - 1 ELSE Len(Lines(d)))

\* split_by_files fails exactly when no line starts with "diff --git", and
\* a result of it has one chunk for each such line, in order.
C22_OneChunkPerFile ==
    /\ result[1].tag = "Err" <=> C21_LinesWith(diff, DIFF_GIT) = <<>>
    /\ result[1].tag = "Ok" =>
          Len(result[1].chunks) = Len(C21_LinesWith(diff, DIFF_GIT))

C23_Declared ==
    <<"Fix", "Feat", "Docs", "Style", "Refactor", "Test", "Perf", "Build", "Ci",
      "Chore", "Security", "Deps", "Config", "Deploy", "Init", "Wip", "Merge",
      "Revert">>

\* The positions in C23_Declared of the categories that own a keyword of
\* the greatest length among the keywords occurring in the message.
C23_Longest ==
    {i \in 1..Len(C23_Declared) :
        \E e \in C14_Occurring :
            /\ e.category = C23_Declared[i]
            /\ \A o \in C14_Occurring : Len(o.keyword) <= Len(e.keyword)}

\* C23: in the keyword stage, of the categories that own a longest
\* occurring keyword the one declared earliest in the table is returned.
C23_EarliestDeclaredWins ==
    (pc = "done" /\ category /= <<>> /\ ~C10_HasPrefix /\ C10_HasKeyword) =>
        category[1] = C23_Declared[CHOOSE i \in C23_Longest :
                                      \A j \in C23_Longest : i <= j]

\* C24: the first character of the marker of every category is accepted by
\* starts_with_emote, and a message that starts with the marker of a
\* category is returned trimmed, without a marker added, by
\* add_emote_to_commit_message and by process_commit_message.
C24_EveryMarkerAccepted ==
    pc \in {"decorated", "processed"} =>
        /\ \A c \in CommitCategory : starts_with_emote(emote(c))
        /\ (message /= <<>> /\ \E c \in CommitCategory : message[1] = emote(c)[1]) =>
              result[1] = trim(message)

\* C25: a first line of the scoped form "k(s): t" or of the plain form
\* "k: t", for a keyword k of the structured-prefix table, gives the
\* message the category that the table assigns to k.
C25_ScopedAsPlain ==
    pc = "done" /\ category /= <<>> =>
        \A i \in 1..Len(conventional_patterns) :
            LET k == conventional_patterns[i].pattern
                line == C13_Line(message)
            IN  (\/ starts_with(line, k \o <<":">>)
                 \/ /\ starts_with(line, k \o <<"(">>)
                    /\ contains(line, <<")", ":">>)) =>
                    category[1] = conventional_patterns[i].category

\* The rules of the context stage that give a message without structured
\* prefix and without keyword its category.
C26_Reached(m) ==
    IF \/ parse_conventional_commit(to_lowercase(first_line_of(m))) /= <<>>
       \/ \E c \in DOMAIN create_keyword_patterns :
             \E j \in 1..Len(create_keyword_patterns[c]) :
                 contains(to_lowercase(m), create_keyword_patterns[c][j])
    THEN {}
    ELSE LET hits == {i \in 1..Len(C15_Rules) :
                        \E marker \in C15_Rules[i].markers :
                            contains(to_lowercase(m), marker)}
         IN  {i \in hits : \A j \in hits : i <= j}

\* The messages "Add .github/workflows/ci.yml" and "Update config.yaml
\* settings".
C26_Examples ==
    {
      <<"A", "d", "d", " ", ".", "g", "i", "t", "h", "u", "b",
        "/", "w", "o", "r", "k", "f", "l", "o", "w", "s", "/",
        "c", "i", ".", "y", "m", "l">>,
      <<"U", "p", "d", "a", "t", "e", " ", "c", "o", "n", "f",
        "i", "g", ".", "y", "a", "m", "l", " ", "s", "e", "t",
        "t", "i", "n", "g", "s">>
    }

\* C26 as stated: each of the five context rules gives some message its
\* category, and the two messages of the claim get their category from the
\* context stage, not from the keyword stage.
C26_EveryRuleReachable ==
    pc = "done" =>
        /\ \A i \in 1..Len(C15_Rules) : \E m \in ContextMessages : i \in C26_Reached(m)
        /\ message \in C26_Examples => ~C10_HasPrefix /\ ~C10_HasKeyword

\* The markers that contain no keyword of the keyword table.
C26_FreeMarkers ==
    {<<".", "m", "d">>, <<"d", "o", "c", "/">>, <<".", "y", "m", "l">>}

\* C26 as amended: every marker of the context rules but ".md", "doc/" and
\* ".yml" contains a keyword of the keyword table, so that a message with
\* it gets its category from the keyword stage: a message is classified by
\* the context stage only through ".md" or "doc/", as Docs, or else ".yml",
\* as Config; the rules of Deps, Ci and Test classify no message.  "Add
\* .github/workflows/ci.yml" is Ci and "Update config.yaml settings" is
\* Config by their longest keywords, "workflow" and "settings".
C26_OnlyDocsAndConfigReachable ==
    pc = "done" /\ category /= <<>> =>
        /\ \A i \in 1..Len(C15_Rules) :
              \A marker \in C15_Rules[i].markers \ C26_FreeMarkers :
                  /\ \E c \in DOMAIN create_keyword_patterns :
                        \E j \in 1..Len(create_keyword_patterns[c]) :
                            contains(marker, create_keyword_patterns[c][j])
                  /\ contains(to_lowercase(message), marker) => C10_HasKeyword
        /\ (~C10_HasPrefix /\ ~C10_HasKeyword /\ C10_HasMarker) =>
              LET lower == to_lowercase(message)
              IN  IF \/ contains(lower, <<".", "m", "d">>)
                     \/ contains(lower, <<"d", "o", "c", "/">>)
                  THEN category[1] = "Docs"
                  ELSE /\ contains(lower, <<".", "y", "m", "l">>)
                       /\ category[1] = "Config"
        /\ C26_Reached(message) \subseteq {1, 3}
        /\ message \in C26_Examples =>
              /\ C10_HasKeyword
              /\ \E e \in C14_Occurring :
                    /\ e.category = category[1]
                    /\ \A o \in C14_Occurring \ {e} : Len(o.keyword) < Len(e.keyword)
                    /\ e.keyword \in {<<"w", "o", "r", "k", "f", "l", "o", "w">>,
                                      <<"s", "e", "t", "t", "i", "n", "g", "s">>}
        /\ message = ContextMarkers[14] \o <<"/", "c", "i", ".", "y", "m", "l">>
              => category[1] = "Ci"

\* The message "Add .github/workflows/ci.yml" has got the category Ci, with
\* keywords in it.
C26_Witness ==
    /\ pc = "done"
    /\ category = <<"Ci">>
    /\ message \in C26_Examples
    /\ C10_HasKeyword

====
